---- MODULE Spec2Model ----
(***************************************************************************)
(* Supervision of the uxplay receiver process by the two AirPlay wrappers  *)
(* of the repository: airplay/server.py (AirPlayServer, output scanned by  *)
(* a monitor thread, events sent over ZMQ) and bin/airplay_native.py       *)
(* (NativeAirPlayServer, output scanned inside start(), events written to  *)
(* Redis).  Three kinds of thread run concurrently: the main thread        *)
(* (main's loop and start()), the command listener thread (which calls     *)
(* stop()) and, in server.py, one daemon monitor thread per spawned        *)
(* process.  One step of the model is one statement (or one blocking call  *)
(* returning) of one thread, or a step of the environment: the child       *)
(* process exiting, a write to the settings store.                         *)
(***************************************************************************)
EXTENDS Naturals, Sequences, FiniteSets, TLC

\* ---------------------------------------------------------------- bounds
\* Child processes that can be spawned successfully in one run.
MaxProcs == 2
\* Messages delivered on the airplay_cmd channel in one run.
MaxCmds == 2
\* Output lines one child process produces.
MaxLines == 2
\* Writes of the airplay_name key by other components in one run.
MaxWrites == 1
\* Events of the environment in one run, of all four kinds together.
MaxEvents == 3

\* ------------------------------------------------------------- constants
STATE_IDLE == "idle"
STATE_CONNECTED == "connected"
STATE_STREAMING == "streaming"

\* Python's None.
None == "None"

DEFAULT_NAME == "Checkin Cast"
DEFAULT_RESOLUTION == "1920x1080"
DEFAULT_FRAMERATE == "30"
DEFAULT_AUDIO_OUTPUT == "hdmi"

Variants == {"server", "native"}

\* Values of AIRPLAY_RESOLUTION in the environment of server.py: unset
\* (auto-detect, the default) and a value without an 'x'.
Resolutions == {"", "1080p"}

\* What _detect_display_resolution returns on the modelled host: the mode
\* of its display.
DetectedResolutions == {"1280x720"}

\* Names other components store under airplay_name ("" is an absent key).
StoreNames == {"", "Lobby", "Foyer"}

\* The [airplay] airplay_name and [viewer] audio_output of screenly.conf.
ConfigFileName == "Hall"
ConfigFileAudio == "hdmi2"

\* Values of AUDIO_OUTPUT (server.py) and of [viewer] audio_output
\* (airplay_native.py); "local" stands for any value neither file names.
AudioOutputs == {"hdmi", "headphones", "hdmi2", "local"}

\* Payloads published on airplay_cmd.
Commands == {"restart", "stop", "start", "reload"}

Pids == 1..MaxProcs

\* ----------------------------------------------- output lines of uxplay
LConnA == "Connection from 10.0.0.2 (alice)"
LConnB == "Connection from 10.0.0.3 (bob): Connection closed"
LStart == "Starting video stream"
LStopped == "Video stream stopped"
LClosed == "Connection closed"
LOther == "raop_rtp_mirror starting mirroring"

Lines == {LConnA, LConnB, LStart, LStopped, LClosed, LOther}

\* re.compile(r'Connection from .* \((.+)\)').search(line): the captured
\* group, or None when the pattern does not match.
connect_pattern(line) ==
  CASE line = LConnA -> "alice"
    [] line = LConnB -> "bob"
    [] OTHER -> None

\* re.compile(r'Starting video stream').search(line)
stream_start_pattern(line) == line = LStart

\* re.compile(r'Video stream stopped|Connection closed').search(line)
stream_stop_pattern(line) == line \in {LStopped, LClosed, LConnB}

\* 'connection from' in line.lower()
native_connect(line) == line \in {LConnA, LConnB}

\* 'mirror started' in line.lower() or 'video stream' in line.lower()
native_streaming(line) == line \in {LStart, LStopped}

\* 'connection closed' in line.lower() or 'disconnected' in line.lower()
native_idle(line) == line \in {LClosed, LConnB}

\* An event handed to _publish_state: the state and the client name.
Event(st, cl) == [state |-> st, client |-> cl]

NoEvent == <<>>

\* The event the scan loop of server.py publishes for a line: first match
\* wins, connect before stream start before stream stop.
ClassifyServer(line, cur_client) ==
  IF connect_pattern(line) # None
    THEN <<Event(STATE_CONNECTED, connect_pattern(line))>>
  ELSE IF stream_start_pattern(line)
    THEN <<Event(STATE_STREAMING, cur_client)>>
  ELSE IF stream_stop_pattern(line)
    THEN <<Event(STATE_IDLE, None)>>
  ELSE NoEvent

\* The event the scan loop of airplay_native.py publishes for a line.
ClassifyNative(line, cur_client) ==
  IF native_connect(line)
    THEN <<Event(STATE_CONNECTED, None)>>
  ELSE IF native_streaming(line)
    THEN <<Event(STATE_STREAMING, None)>>
  ELSE IF native_idle(line)
    THEN <<Event(STATE_IDLE, None)>>
  ELSE NoEvent

\* ------------------------------------------------------ launch arguments
NoCmd == [name |-> None, nohost |-> FALSE, size |-> None, fps |-> None, audio |-> None]

\* resolution.split('x') unpacks into width, height only for a WxH string.
WellFormed(res) == res \in {"1920x1080", "1280x720"}

\* A build that always passes the generic sink.
AudioSinkGeneric(v, audio) == "alsasink"

\* The -as argument chosen by audio_output, per variant.
AudioSink(v, audio) ==
  IF audio = "hdmi" THEN (IF v = "server" THEN "alsasink device=hw:0,0"
                                          ELSE "alsasink device=hw:0")
  ELSE IF v = "server" /\ audio = "headphones" THEN "alsasink device=hw:1,0"
  ELSE IF v = "native" /\ audio = "hdmi2" THEN "alsasink device=hw:1"
  ELSE "alsasink"

\* _build_command: the argument list as a record of its variable parts and
\* of -nh.
\* -s is WxH@fps in server.py and WxH in airplay_native.py.
BuildCommand(v, name, res, fps, audio) ==
  [name |-> name,
   nohost |-> TRUE,
   size |-> IF v = "server" THEN <<res, fps>> ELSE <<res>>,
   fps |-> fps,
   audio |-> AudioSink(v, audio)]

\* What a per-line classifier of the variant's keyword table records as the
\* identity after a line: the parenthesized token of a connect line, nothing
\* after a stop/close line, else what it held.
RefConnect(v, l) == IF v = "server" THEN connect_pattern(l) # None ELSE native_connect(l)
RefStart(v, l) == IF v = "server" THEN stream_start_pattern(l) ELSE native_streaming(l)
RefStop(v, l) == IF v = "server" THEN stream_stop_pattern(l) ELSE native_idle(l)

RefIdentity(v, l, ident) ==
  IF RefConnect(v, l) THEN connect_pattern(l)
  ELSE IF RefStart(v, l) THEN ident
  ELSE IF RefStop(v, l) THEN None
  ELSE ident

\* ----------------------------------------------------------------- state
VARIABLES
  variant,            \* which wrapper runs: "server" or "native"
  resolution,         \* self.resolution
  redis_name,         \* the airplay_name key of the settings store
  device_name,        \* self.device_name
  audio_output,       \* self.audio_output
  running,            \* self.running
  process,            \* self.process: 0 is None, else the pid of the Popen
  restart_requested,  \* self.restart_requested
  state,              \* self.state / the airplay_state key
  client_name,        \* self.client_name / the airplay_client key
  proc,               \* status of each child: unborn, alive, zombie, reaped
  signals,            \* signals sent to each child's process group
  nlines,             \* lines read so far from each child's output
  cmd,                \* start()'s local cmd
  launched,           \* argument list the current process was spawned with
  exc,                \* start() is unwinding with an exception
  mpc,                \* position of the main thread
  lpc,                \* position of the listener thread
  cmd_msg,            \* the listener's local cmd: the payload of the last message
  hpc,                \* position of main.signal_handler, run by the main thread
  stop_proc,          \* the Popen that stop()'s wait(timeout=5) waits on
  mon,                \* position of each monitor thread
  scan_proc,          \* the Popen whose output a scan loop's readline reads
  line,               \* the local line of each scan loop (0: start() of airplay_native.py)
  ncmds,              \* messages delivered so far
  nwrites,            \* store writes so far
  pub,                \* history: the last step published an event
  ref_client,         \* history: identity a per-line classifier holds for the current process
  stop_cleared,       \* history: stop() cleared the run flag, start() has not set it since
  restart_seen,       \* history: restart received, or in the listener's hands, since the last
                      \* spawn attempt: "alive" (received while the child was alive), "late"
                      \* (otherwise, after start() had spawned), "none"
  idles_pending,      \* history: Idle events of stop()/exit path since that restart
  disabled            \* history: a stop command was received and no start command since

vars == <<variant, resolution, redis_name, device_name, audio_output, running,
          process, restart_requested, state, client_name, proc, signals,
          nlines, cmd, launched, exc, mpc, lpc, cmd_msg, hpc, stop_proc, mon,
          scan_proc, line, ncmds, nwrites, pub, ref_client, stop_cleared,
          restart_seen, idles_pending, disabled>>

Scanners == 0..MaxProcs

\* The fields __init__ sets apart from the settings, and the threads at
\* their first statement.
Constructed ==
  /\ running = FALSE
  /\ process = 0
  /\ restart_requested = FALSE
  /\ state = STATE_IDLE
  /\ client_name = None
  /\ proc = [p \in Pids |-> "unborn"]
  /\ signals = [p \in Pids |-> {}]
  /\ nlines = [p \in Pids |-> 0]
  /\ cmd = NoCmd
  /\ launched = NoCmd
  /\ exc = FALSE
  /\ mpc = "s_check"
  /\ lpc = "l_listen"
  /\ cmd_msg = None
  /\ hpc = "h_none"
  /\ stop_proc = 0
  /\ mon = [p \in Pids |-> "none"]
  /\ scan_proc = [i \in Scanners |-> 0]
  /\ line = [i \in Scanners |-> None]
  /\ ncmds = 0
  /\ nwrites = 0
  /\ pub = FALSE
  /\ ref_client = None
  /\ stop_cleared = FALSE
  /\ restart_seen = "none"
  /\ idles_pending = 0
  /\ disabled = FALSE

\* __init__ then _load_settings_from_redis / _load_settings on a store that
\* holds a name; main has started the listener and is about to call start().
Init ==
  /\ variant \in Variants
  /\ resolution \in (IF variant = "server" THEN Resolutions ELSE {DEFAULT_RESOLUTION})
  /\ redis_name = "Lobby"
  /\ device_name = (IF redis_name # "" THEN redis_name ELSE DEFAULT_NAME)
  /\ audio_output = DEFAULT_AUDIO_OUTPUT
  /\ Constructed

\* Positions of the main thread inside a start() call that passed line 244.
InStart == {"s_set", "s_build", "s_spawn", "s_thread", "s_pub", "s_wait",
            "n_loop", "n_read", "n_classify", "s_except", "s_finally",
            "s_fin_pub"}

\* Positions of the listener thread inside a stop() call that passed line 285.
InStop == {"st_set", "st_term", "st_wait", "st_kill", "st_pub"}

Alive == {p \in Pids : proc[p] = "alive"}

\* Events of the environment so far: children spawned, messages delivered,
\* lines read, store writes and a termination signal.
RECURSIVE SumLines(_)
SumLines(S) == IF S = {} THEN 0
               ELSE LET p == CHOOSE q \in S : TRUE IN nlines[p] + SumLines(S \ {p})

Used ==
  Cardinality({p \in Pids : proc[p] # "unborn"}) + ncmds + SumLines(Pids) + nwrites
    + (IF hpc = "h_none" THEN 0 ELSE 1)

Room == Used < MaxEvents

\* The main thread runs the loop unless it is inside signal_handler.
MainRuns == hpc \in {"h_none", "h_back"}

\* The program has not ended.
ProgramRuns == hpc # "h_exit"

\* Popen.wait()/poll() on a child that has exited collects its status.
Reap(p) == IF p \in Pids /\ proc[p] = "zombie" THEN [proc EXCEPT ![p] = "reaped"] ELSE proc

\* _publish_state on a sequence of at most one event: records the state and
\* the client and sends the message.
Publish(evs, src) ==
  /\ state' = (IF evs = <<>> THEN state ELSE evs[1].state)
  /\ client_name' = (IF evs = <<>> THEN client_name ELSE evs[1].client)
  /\ pub' = (evs # <<>>)
  /\ idles_pending' = (IF evs # <<>> /\ restart_seen = "alive" /\ src \in {"stop", "exit"}
                          /\ evs[1].state = STATE_IDLE /\ idles_pending < 3
                       THEN idles_pending + 1 ELSE idles_pending)

\* --------------------------------------------------- main thread: start()
\* start() without its test of the run flag.
AlreadyRunningDropped == FALSE

\* if self.running
AlreadyRunning == running

\* if self.running: logger.warning(...); return
StartCheck ==
  /\ MainRuns
  /\ mpc = "s_check"
  /\ mpc' = (IF AlreadyRunning THEN "m_check" ELSE "s_set")
  /\ pub' = FALSE
  /\ UNCHANGED <<variant, resolution, redis_name, device_name, audio_output,
               running, process, restart_requested, state, client_name, proc,
               signals, nlines, cmd, launched, exc, lpc, cmd_msg, hpc,
               stop_proc, mon, scan_proc, line, ncmds, nwrites, ref_client,
               stop_cleared, restart_seen, idles_pending, disabled>>

\* self.running = True
StartSetRunning ==
  /\ MainRuns
  /\ mpc = "s_set"
  /\ running' = TRUE
  /\ stop_cleared' = FALSE
  /\ mpc' = "s_build"
  /\ pub' = FALSE
  /\ UNCHANGED <<variant, resolution, redis_name, device_name, audio_output,
               process, restart_requested, state, client_name, proc, signals,
               nlines, cmd, launched, exc, lpc, cmd_msg, hpc, stop_proc, mon,
               scan_proc, line, ncmds, nwrites, ref_client, restart_seen,
               idles_pending, disabled>>

\* cmd = self._build_command(); the unpacking of resolution.split('x')
\* raises outside start()'s try block, so main's except catches it.
StartBuild ==
  /\ MainRuns
  /\ mpc = "s_build"
  /\ \E res \in (IF variant = "server" /\ resolution = ""
                  THEN DetectedResolutions ELSE {resolution}) :
       IF WellFormed(res)
         THEN /\ cmd' = BuildCommand(variant, device_name, res,
                                     DEFAULT_FRAMERATE, audio_output)
              /\ mpc' = "s_spawn"
         ELSE /\ cmd' = cmd
              /\ mpc' = "m_sleep"
  /\ pub' = FALSE
  /\ UNCHANGED <<variant, resolution, redis_name, device_name, audio_output,
               running, process, restart_requested, state, client_name, proc,
               signals, nlines, launched, exc, lpc, cmd_msg, hpc, stop_proc,
               mon, scan_proc, line, ncmds, nwrites, ref_client, stop_cleared,
               restart_seen, idles_pending, disabled>>

\* The listener holds a restart command it has not finished handling.
HandlingRestart ==
  /\ lpc \notin {"l_listen", "l_dead"}
  /\ lpc = "l_cmd" => cmd_msg = "restart"

\* self.process = subprocess.Popen(cmd, ...) succeeds.
SpawnOk ==
  /\ MainRuns
  /\ mpc = "s_spawn"
  /\ Room
  /\ \E p \in Pids :
       /\ proc[p] = "unborn"
       /\ \A q \in Pids : q < p => proc[q] # "unborn"
       /\ process' = p
       /\ proc' = [proc EXCEPT ![p] = "alive"]
  /\ launched' = cmd
  /\ cmd' = NoCmd
  /\ mpc' = (IF variant = "server" THEN "s_thread" ELSE "s_pub")
  /\ ref_client' = None
  /\ restart_seen' = (IF HandlingRestart THEN "late" ELSE "none")
  /\ idles_pending' = 0
  /\ pub' = FALSE
  /\ UNCHANGED <<variant, resolution, redis_name, device_name, audio_output,
               running, restart_requested, state, client_name, signals,
               nlines, exc, lpc, cmd_msg, hpc, stop_proc, mon, scan_proc,
               line, ncmds, nwrites, stop_cleared, disabled>>

\* subprocess.Popen raises (binary missing, fork failure).
SpawnFail ==
  /\ MainRuns
  /\ mpc = "s_spawn"
  /\ exc' = TRUE
  /\ cmd' = NoCmd
  /\ mpc' = "s_except"
  /\ restart_seen' = "none"
  /\ idles_pending' = 0
  /\ pub' = FALSE
  /\ UNCHANGED <<variant, resolution, redis_name, device_name, audio_output,
               running, process, restart_requested, state, client_name, proc,
               signals, nlines, launched, lpc, cmd_msg, hpc, stop_proc, mon,
               scan_proc, line, ncmds, nwrites, ref_client, stop_cleared,
               disabled>>

\* server.py: monitor_thread.start()
StartThread ==
  /\ MainRuns
  /\ mpc = "s_thread"
  /\ mon' = [mon EXCEPT ![process] = "loop"]
  /\ mpc' = "s_pub"
  /\ pub' = FALSE
  /\ UNCHANGED <<variant, resolution, redis_name, device_name, audio_output,
               running, process, restart_requested, state, client_name, proc,
               signals, nlines, cmd, launched, exc, lpc, cmd_msg, hpc,
               stop_proc, scan_proc, line, ncmds, nwrites, ref_client,
               stop_cleared, restart_seen, idles_pending, disabled>>

\* self._publish_state(STATE_IDLE) after the spawn.
StartPublishIdle ==
  /\ MainRuns
  /\ mpc = "s_pub"
  /\ Publish(<<Event(STATE_IDLE, None)>>, "spawn")
  /\ mpc' = (IF variant = "server" THEN "s_wait" ELSE "n_loop")
  /\ UNCHANGED <<variant, resolution, redis_name, device_name, audio_output,
               running, process, restart_requested, proc, signals, nlines,
               cmd, launched, exc, lpc, cmd_msg, hpc, stop_proc, mon,
               scan_proc, line, ncmds, nwrites, ref_client, stop_cleared,
               restart_seen, disabled>>

\* server.py: self.process.wait() returns once the child has exited.
StartWait ==
  /\ MainRuns
  /\ mpc = "s_wait"
  /\ proc[process] \in {"zombie", "reaped"}
  /\ proc' = Reap(process)
  /\ mpc' = "s_finally"
  /\ pub' = FALSE
  /\ UNCHANGED <<variant, resolution, redis_name, device_name, audio_output,
               running, process, restart_requested, state, client_name,
               signals, nlines, cmd, launched, exc, lpc, cmd_msg, hpc,
               stop_proc, mon, scan_proc, line, ncmds, nwrites, ref_client,
               stop_cleared, restart_seen, idles_pending, disabled>>

\* airplay_native.py: while self.running and self.process
NativeLoop ==
  /\ MainRuns
  /\ mpc = "n_loop"
  /\ mpc' = (IF running /\ process # 0 THEN "n_read" ELSE "s_finally")
  /\ pub' = FALSE
  /\ UNCHANGED <<variant, resolution, redis_name, device_name, audio_output,
               running, process, restart_requested, state, client_name, proc,
               signals, nlines, cmd, launched, exc, lpc, cmd_msg, hpc,
               stop_proc, mon, scan_proc, line, ncmds, nwrites, ref_client,
               stop_cleared, restart_seen, idles_pending, disabled>>

\* airplay_native.py: line = self.process.stdout.readline() returns a line.
NativeReadLine ==
  /\ MainRuns
  /\ mpc = "n_read"
  /\ Room
  /\ nlines[process] < MaxLines
  /\ \E l \in Lines :
       /\ line' = [line EXCEPT ![0] = l]
       /\ ref_client' = RefIdentity(variant, l, ref_client)
  /\ nlines' = [nlines EXCEPT ![process] = @ + 1]
  /\ mpc' = "n_classify"
  /\ pub' = FALSE
  /\ UNCHANGED <<variant, resolution, redis_name, device_name, audio_output,
               running, process, restart_requested, state, client_name, proc,
               signals, cmd, launched, exc, lpc, cmd_msg, hpc, stop_proc, mon,
               scan_proc, ncmds, nwrites, stop_cleared, restart_seen,
               idles_pending, disabled>>

\* airplay_native.py: the if/elif chain on line.lower().
NativeClassify ==
  /\ MainRuns
  /\ mpc = "n_classify"
  /\ Publish(ClassifyNative(line[0], client_name), "scan")
  /\ line' = [line EXCEPT ![0] = None]
  /\ mpc' = "n_loop"
  /\ UNCHANGED <<variant, resolution, redis_name, device_name, audio_output,
               running, process, restart_requested, proc, signals, nlines,
               cmd, launched, exc, lpc, cmd_msg, hpc, stop_proc, mon,
               scan_proc, ncmds, nwrites, ref_client, stop_cleared,
               restart_seen, disabled>>

\* airplay_native.py: readline returns b'' at end of stream and poll()
\* finds the child exited: break.
NativeReadEof ==
  /\ MainRuns
  /\ mpc = "n_read"
  /\ proc[process] # "alive"
  /\ proc' = Reap(process)
  /\ mpc' = "s_finally"
  /\ pub' = FALSE
  /\ UNCHANGED <<variant, resolution, redis_name, device_name, audio_output,
               running, process, restart_requested, state, client_name,
               signals, nlines, cmd, launched, exc, lpc, cmd_msg, hpc,
               stop_proc, mon, scan_proc, line, ncmds, nwrites, ref_client,
               stop_cleared, restart_seen, idles_pending, disabled>>

\* except Exception: self.running = False; raise
StartExcept ==
  /\ MainRuns
  /\ mpc = "s_except"
  /\ running' = FALSE
  /\ mpc' = "s_finally"
  /\ pub' = FALSE
  /\ UNCHANGED <<variant, resolution, redis_name, device_name, audio_output,
               process, restart_requested, state, client_name, proc, signals,
               nlines, cmd, launched, exc, lpc, cmd_msg, hpc, stop_proc, mon,
               scan_proc, line, ncmds, nwrites, ref_client, stop_cleared,
               restart_seen, idles_pending, disabled>>

\* finally: self.running = False
StartFinally ==
  /\ MainRuns
  /\ mpc = "s_finally"
  /\ running' = FALSE
  /\ mpc' = "s_fin_pub"
  /\ pub' = FALSE
  /\ UNCHANGED <<variant, resolution, redis_name, device_name, audio_output,
               process, restart_requested, state, client_name, proc, signals,
               nlines, cmd, launched, exc, lpc, cmd_msg, hpc, stop_proc, mon,
               scan_proc, line, ncmds, nwrites, ref_client, stop_cleared,
               restart_seen, idles_pending, disabled>>

\* finally: self._publish_state(STATE_IDLE); start() then returns to main,
\* or the exception reaches main's except.
StartFinallyPublish ==
  /\ MainRuns
  /\ mpc = "s_fin_pub"
  /\ Publish(<<Event(STATE_IDLE, None)>>, "exit")
  /\ mpc' = (IF exc THEN "m_sleep" ELSE "m_check")
  /\ exc' = FALSE
  /\ UNCHANGED <<variant, resolution, redis_name, device_name, audio_output,
               running, process, restart_requested, proc, signals, nlines,
               cmd, launched, lpc, cmd_msg, hpc, stop_proc, mon, scan_proc,
               line, ncmds, nwrites, ref_client, stop_cleared, restart_seen,
               disabled>>

\* ------------------------------------------------------ main thread: main
\* if server.restart_requested:
MainCheckRestart ==
  /\ MainRuns
  /\ mpc = "m_check"
  /\ mpc' = (IF restart_requested THEN "m_clear" ELSE "m_sleep")
  /\ pub' = FALSE
  /\ UNCHANGED <<variant, resolution, redis_name, device_name, audio_output,
               running, process, restart_requested, state, client_name, proc,
               signals, nlines, cmd, launched, exc, lpc, cmd_msg, hpc,
               stop_proc, mon, scan_proc, line, ncmds, nwrites, ref_client,
               stop_cleared, restart_seen, idles_pending, disabled>>

\* server.restart_requested = False; continue
MainClearRestart ==
  /\ MainRuns
  /\ mpc = "m_clear"
  /\ restart_requested' = FALSE
  /\ mpc' = "s_check"
  /\ pub' = FALSE
  /\ UNCHANGED <<variant, resolution, redis_name, device_name, audio_output,
               running, process, state, client_name, proc, signals, nlines,
               cmd, launched, exc, lpc, cmd_msg, hpc, stop_proc, mon,
               scan_proc, line, ncmds, nwrites, ref_client, stop_cleared,
               restart_seen, idles_pending, disabled>>

\* sleep(5), then the next iteration calls start().
MainSleep ==
  /\ MainRuns
  /\ mpc = "m_sleep"
  /\ mpc' = "s_check"
  /\ pub' = FALSE
  /\ UNCHANGED <<variant, resolution, redis_name, device_name, audio_output,
               running, process, restart_requested, state, client_name, proc,
               signals, nlines, cmd, launched, exc, lpc, cmd_msg, hpc,
               stop_proc, mon, scan_proc, line, ncmds, nwrites, ref_client,
               stop_cleared, restart_seen, idles_pending, disabled>>

\* ------------------------------------------------ listener thread: listener
\* Positions of the main thread from the spawn to main's test of the flag.
AfterSpawn == {"s_thread", "s_pub", "s_wait", "n_loop", "n_read", "n_classify",
               "s_finally", "s_fin_pub", "m_check"}

SeenAfter(c) ==
  IF c # "restart" \/ restart_seen = "alive" THEN restart_seen
  ELSE IF process # 0 /\ proc[process] = "alive" THEN "alive"
  ELSE IF mpc \in AfterSpawn /\ ~exc THEN "late"
  ELSE restart_seen

\* for message in pubsub.listen(): cmd = message['data']
ListenerReceive ==
  /\ ProgramRuns
  /\ lpc = "l_listen"
  /\ Room
  /\ ncmds < MaxCmds
  /\ ncmds' = ncmds + 1
  /\ \E c \in Commands :
       /\ cmd_msg' = c
       /\ restart_seen' = SeenAfter(c)
       /\ disabled' = (IF c = "stop" THEN TRUE
                       ELSE IF c = "start" THEN FALSE ELSE disabled)
  /\ idles_pending' = (IF restart_seen = "alive" THEN idles_pending ELSE 0)
  /\ lpc' = "l_cmd"
  /\ pub' = FALSE
  /\ UNCHANGED <<variant, resolution, redis_name, device_name, audio_output,
               running, process, restart_requested, state, client_name, proc,
               signals, nlines, cmd, launched, exc, mpc, hpc, stop_proc, mon,
               scan_proc, line, nwrites, ref_client, stop_cleared>>

\* A listener that treats every payload but 'stop' and 'start' as a restart.
IsNotStopStart(c) == c \notin {"stop", "start"}

\* A listener that also acts on 'stop'.
IsRestartOrStop(c) == c \in {"restart", "stop"}

\* if cmd == 'restart'
IsRestart(c) == c = "restart"

\* if cmd == 'restart': ...; any other payload is only logged.
ListenerDispatch ==
  /\ ProgramRuns
  /\ lpc = "l_cmd"
  /\ lpc' = (IF IsRestart(cmd_msg) THEN "l_load" ELSE "l_listen")
  /\ pub' = FALSE
  /\ UNCHANGED <<variant, resolution, redis_name, device_name, audio_output,
               running, process, restart_requested, state, client_name, proc,
               signals, nlines, cmd, launched, exc, mpc, cmd_msg, hpc,
               stop_proc, mon, scan_proc, line, ncmds, nwrites, ref_client,
               stop_cleared, restart_seen, idles_pending, disabled>>

\* _load_settings_from_redis (server.py) / _load_settings (airplay_native.py):
\* a non-empty airplay_name replaces device_name; in airplay_native.py an
\* empty or unreadable key falls back to the config file, when it exists.
LoadSettings ==
  /\ ProgramRuns
  /\ lpc = "l_load"
  /\ \E redis_ok \in BOOLEAN, conf_exists \in BOOLEAN :
       IF redis_ok /\ redis_name # ""
         THEN /\ device_name' = redis_name
              /\ audio_output' = audio_output
         ELSE IF variant = "native" /\ conf_exists
           THEN /\ device_name' = ConfigFileName
                /\ audio_output' = ConfigFileAudio
           ELSE /\ device_name' = device_name
                /\ audio_output' = audio_output
  /\ lpc' = "l_flag"
  /\ pub' = FALSE
  /\ UNCHANGED <<variant, resolution, redis_name, running, process,
               restart_requested, state, client_name, proc, signals, nlines,
               cmd, launched, exc, mpc, cmd_msg, hpc, stop_proc, mon,
               scan_proc, line, ncmds, nwrites, ref_client, stop_cleared,
               restart_seen, idles_pending, disabled>>

\* self.restart_requested = True
SetRestartRequested ==
  /\ ProgramRuns
  /\ lpc = "l_flag"
  /\ restart_requested' = TRUE
  /\ lpc' = "st_check"
  /\ pub' = FALSE
  /\ UNCHANGED <<variant, resolution, redis_name, device_name, audio_output,
               running, process, state, client_name, proc, signals, nlines,
               cmd, launched, exc, mpc, cmd_msg, hpc, stop_proc, mon,
               scan_proc, line, ncmds, nwrites, ref_client, stop_cleared,
               restart_seen, idles_pending, disabled>>

\* -------------------------------------------------- listener thread: stop()
\* stop() testing the handle only.
NothingToStopNoFlag == process = 0

\* if not self.running or not self.process
NothingToStop == ~running \/ process = 0

\* if not self.running or not self.process: return
StopCheck ==
  /\ ProgramRuns
  /\ lpc = "st_check"
  /\ lpc' = (IF NothingToStop THEN "st_return" ELSE "st_set")
  /\ pub' = FALSE
  /\ UNCHANGED <<variant, resolution, redis_name, device_name, audio_output,
               running, process, restart_requested, state, client_name, proc,
               signals, nlines, cmd, launched, exc, mpc, cmd_msg, hpc,
               stop_proc, mon, scan_proc, line, ncmds, nwrites, ref_client,
               stop_cleared, restart_seen, idles_pending, disabled>>

\* return (line 286): stop() did nothing, the listener waits for the next
\* message.
StopReturn ==
  /\ ProgramRuns
  /\ lpc = "st_return"
  /\ lpc' = "l_listen"
  /\ pub' = FALSE
  /\ UNCHANGED <<variant, resolution, redis_name, device_name, audio_output,
               running, process, restart_requested, state, client_name, proc,
               signals, nlines, cmd, launched, exc, mpc, cmd_msg, hpc,
               stop_proc, mon, scan_proc, line, ncmds, nwrites, ref_client,
               stop_cleared, restart_seen, idles_pending, disabled>>

\* self.running = False
StopClearRunning ==
  /\ ProgramRuns
  /\ lpc = "st_set"
  /\ running' = FALSE
  /\ stop_cleared' = TRUE
  /\ lpc' = "st_term"
  /\ pub' = FALSE
  /\ UNCHANGED <<variant, resolution, redis_name, device_name, audio_output,
               process, restart_requested, state, client_name, proc, signals,
               nlines, cmd, launched, exc, mpc, cmd_msg, hpc, stop_proc, mon,
               scan_proc, line, ncmds, nwrites, ref_client, restart_seen,
               idles_pending, disabled>>

\* os.killpg(os.getpgid(self.process.pid), signal.SIGTERM): getpgid raises
\* ProcessLookupError for a child that was already collected (caught: pass);
\* otherwise the signal is sent and self.process.wait(timeout=5) begins.
StopTerminate ==
  /\ ProgramRuns
  /\ lpc = "st_term"
  /\ IF proc[process] = "reaped"
       THEN /\ lpc' = "st_pub"
            /\ UNCHANGED <<signals, stop_proc>>
       ELSE /\ signals' = [signals EXCEPT ![process] = @ \cup {"SIGTERM"}]
            /\ stop_proc' = process
            /\ lpc' = "st_wait"
  /\ pub' = FALSE
  /\ UNCHANGED <<variant, resolution, redis_name, device_name, audio_output,
               running, process, restart_requested, state, client_name, proc,
               nlines, cmd, launched, exc, mpc, cmd_msg, hpc, mon, scan_proc,
               line, ncmds, nwrites, ref_client, stop_cleared, restart_seen,
               idles_pending, disabled>>

\* self.process.wait(timeout=5) returns: the child exited within the grace
\* period.
StopWaitExited ==
  /\ ProgramRuns
  /\ lpc = "st_wait"
  /\ proc[stop_proc] # "alive"
  /\ proc' = Reap(stop_proc)
  /\ stop_proc' = 0
  /\ lpc' = "st_pub"
  /\ pub' = FALSE
  /\ UNCHANGED <<variant, resolution, redis_name, device_name, audio_output,
               running, process, restart_requested, state, client_name,
               signals, nlines, cmd, launched, exc, mpc, cmd_msg, hpc, mon,
               scan_proc, line, ncmds, nwrites, ref_client, stop_cleared,
               restart_seen, idles_pending, disabled>>

\* self.process.wait(timeout=5) raises TimeoutExpired: the child is still
\* running when the grace period ends.
StopWaitTimeout ==
  /\ ProgramRuns
  /\ lpc = "st_wait"
  /\ proc[stop_proc] = "alive"
  /\ stop_proc' = 0
  /\ lpc' = "st_kill"
  /\ pub' = FALSE
  /\ UNCHANGED <<variant, resolution, redis_name, device_name, audio_output,
               running, process, restart_requested, state, client_name, proc,
               signals, nlines, cmd, launched, exc, mpc, cmd_msg, hpc, mon,
               scan_proc, line, ncmds, nwrites, ref_client, stop_cleared,
               restart_seen, idles_pending, disabled>>

\* except subprocess.TimeoutExpired: os.killpg(os.getpgid(self.process.pid),
\* signal.SIGKILL).  A ProcessLookupError raised here is inside an except
\* clause, so the sibling "except ProcessLookupError" does not catch it: it
\* leaves stop() and ends the listener's loop.
StopKill ==
  /\ ProgramRuns
  /\ lpc = "st_kill"
  /\ IF proc[process] = "reaped"
       THEN /\ lpc' = "l_dead"
            /\ UNCHANGED <<signals, proc>>
       ELSE /\ signals' = [signals EXCEPT ![process] = @ \cup {"SIGKILL"}]
            /\ proc' = [proc EXCEPT ![process] =
                          IF @ = "alive" THEN "zombie" ELSE @]
            /\ lpc' = "st_pub"
  /\ pub' = FALSE
  /\ UNCHANGED <<variant, resolution, redis_name, device_name, audio_output,
               running, process, restart_requested, state, client_name,
               nlines, cmd, launched, exc, mpc, cmd_msg, hpc, stop_proc, mon,
               scan_proc, line, ncmds, nwrites, ref_client, stop_cleared,
               restart_seen, idles_pending, disabled>>

\* self._publish_state(STATE_IDLE); stop() returns to the listener's loop.
StopPublish ==
  /\ ProgramRuns
  /\ lpc = "st_pub"
  /\ Publish(<<Event(STATE_IDLE, None)>>, "stop")
  /\ lpc' = "l_listen"
  /\ UNCHANGED <<variant, resolution, redis_name, device_name, audio_output,
               running, process, restart_requested, proc, signals, nlines,
               cmd, launched, exc, mpc, cmd_msg, hpc, stop_proc, mon,
               scan_proc, line, ncmds, nwrites, ref_client, stop_cleared,
               restart_seen, disabled>>

\* ------------------------------------------- main thread: signal_handler
\* Positions of the main thread inside start()'s try block.
InTry == {"s_spawn", "s_thread", "s_pub", "s_wait", "n_loop", "n_read", "n_classify"}

\* SIGTERM or SIGINT is delivered: the main thread, wherever it is, runs
\* signal_handler, which calls server.cleanup() (server.py) / server.stop().
SignalArrives ==
  /\ hpc = "h_none"
  /\ Room
  /\ hpc' = "h_check"
  /\ pub' = FALSE
  /\ UNCHANGED <<variant, resolution, redis_name, device_name, audio_output,
               running, process, restart_requested, state, client_name, proc,
               signals, nlines, cmd, launched, exc, mpc, lpc, cmd_msg,
               stop_proc, mon, scan_proc, line, ncmds, nwrites, ref_client,
               stop_cleared, restart_seen, idles_pending, disabled>>

\* stop(): if not self.running or not self.process: return
HandlerStopCheck ==
  /\ hpc = "h_check"
  /\ hpc' = (IF NothingToStop THEN "h_exit_call" ELSE "h_set")
  /\ pub' = FALSE
  /\ UNCHANGED <<variant, resolution, redis_name, device_name, audio_output,
               running, process, restart_requested, state, client_name, proc,
               signals, nlines, cmd, launched, exc, mpc, lpc, cmd_msg,
               stop_proc, mon, scan_proc, line, ncmds, nwrites, ref_client,
               stop_cleared, restart_seen, idles_pending, disabled>>

\* stop(): self.running = False
HandlerClearRunning ==
  /\ hpc = "h_set"
  /\ running' = FALSE
  /\ stop_cleared' = TRUE
  /\ hpc' = "h_term"
  /\ pub' = FALSE
  /\ UNCHANGED <<variant, resolution, redis_name, device_name, audio_output,
               process, restart_requested, state, client_name, proc, signals,
               nlines, cmd, launched, exc, mpc, lpc, cmd_msg, stop_proc, mon,
               scan_proc, line, ncmds, nwrites, ref_client, restart_seen,
               idles_pending, disabled>>

\* stop(): os.killpg(..., signal.SIGTERM), then self.process.wait(timeout=5)
\* begins; ProcessLookupError is caught.
HandlerTerminate ==
  /\ hpc = "h_term"
  /\ IF proc[process] = "reaped"
       THEN /\ hpc' = "h_pub"
            /\ UNCHANGED signals
       ELSE /\ signals' = [signals EXCEPT ![process] = @ \cup {"SIGTERM"}]
            /\ hpc' = "h_wait"
  /\ pub' = FALSE
  /\ UNCHANGED <<variant, resolution, redis_name, device_name, audio_output,
               running, process, restart_requested, state, client_name, proc,
               nlines, cmd, launched, exc, mpc, lpc, cmd_msg, stop_proc, mon,
               scan_proc, line, ncmds, nwrites, ref_client, stop_cleared,
               restart_seen, idles_pending, disabled>>

\* stop(): self.process.wait(timeout=5) returns.
HandlerWaitExited ==
  /\ hpc = "h_wait"
  /\ proc[process] # "alive"
  /\ proc' = Reap(process)
  /\ hpc' = "h_pub"
  /\ pub' = FALSE
  /\ UNCHANGED <<variant, resolution, redis_name, device_name, audio_output,
               running, process, restart_requested, state, client_name,
               signals, nlines, cmd, launched, exc, mpc, lpc, cmd_msg,
               stop_proc, mon, scan_proc, line, ncmds, nwrites, ref_client,
               stop_cleared, restart_seen, idles_pending, disabled>>

\* stop(): self.process.wait(timeout=5) raises TimeoutExpired.
HandlerWaitTimeout ==
  /\ hpc = "h_wait"
  /\ proc[process] = "alive"
  /\ hpc' = "h_kill"
  /\ pub' = FALSE
  /\ UNCHANGED <<variant, resolution, redis_name, device_name, audio_output,
               running, process, restart_requested, state, client_name, proc,
               signals, nlines, cmd, launched, exc, mpc, lpc, cmd_msg,
               stop_proc, mon, scan_proc, line, ncmds, nwrites, ref_client,
               stop_cleared, restart_seen, idles_pending, disabled>>

\* stop(): os.killpg(..., signal.SIGKILL) in the TimeoutExpired handler.  A
\* ProcessLookupError raised here leaves stop() and signal_handler and is
\* raised in the code the signal interrupted: inside start()'s try block it
\* reaches start()'s except clause; elsewhere under main's try it reaches
\* main's except clause (from start()'s except clause, after the finally
\* block); in sleep(5) nothing catches it and the program ends.
HandlerKill ==
  /\ hpc = "h_kill"
  /\ IF proc[process] = "reaped"
       THEN /\ UNCHANGED <<signals, proc>>
            /\ IF mpc \in InTry
                 THEN exc' = TRUE /\ mpc' = "s_except" /\ hpc' = "h_back"
                 ELSE IF mpc = "s_except"
                 THEN exc' = exc /\ mpc' = "s_finally" /\ hpc' = "h_back"
                 ELSE IF mpc = "m_sleep"
                 THEN exc' = exc /\ mpc' = mpc /\ hpc' = "h_exit"
                 ELSE exc' = FALSE /\ mpc' = "m_sleep" /\ hpc' = "h_back"
       ELSE /\ signals' = [signals EXCEPT ![process] = @ \cup {"SIGKILL"}]
            /\ proc' = [proc EXCEPT ![process] =
                          IF @ = "alive" THEN "zombie" ELSE @]
            /\ hpc' = "h_pub"
            /\ UNCHANGED <<exc, mpc>>
  /\ pub' = FALSE
  /\ UNCHANGED <<variant, resolution, redis_name, device_name, audio_output,
               running, process, restart_requested, state, client_name,
               nlines, cmd, launched, lpc, cmd_msg, stop_proc, mon, scan_proc,
               line, ncmds, nwrites, ref_client, stop_cleared, restart_seen,
               idles_pending, disabled>>

\* stop(): self._publish_state(STATE_IDLE)
HandlerPublish ==
  /\ hpc = "h_pub"
  /\ Publish(<<Event(STATE_IDLE, None)>>, "stop")
  /\ hpc' = "h_exit_call"
  /\ UNCHANGED <<variant, resolution, redis_name, device_name, audio_output,
               running, process, restart_requested, proc, signals, nlines,
               cmd, launched, exc, mpc, lpc, cmd_msg, stop_proc, mon,
               scan_proc, line, ncmds, nwrites, ref_client, stop_cleared,
               restart_seen, disabled>>

\* sys.exit(0): SystemExit passes every `except Exception`; inside start()'s
\* try statement the finally block runs (self.running = False and an Idle
\* publish); the program ends and its daemon threads with it.
HandlerExit ==
  /\ hpc = "h_exit_call"
  /\ IF mpc \in InTry \cup {"s_except", "s_finally", "s_fin_pub"}
       THEN /\ running' = FALSE
            /\ Publish(<<Event(STATE_IDLE, None)>>, "exit")
       ELSE /\ running' = running
            /\ Publish(NoEvent, "exit")
  /\ hpc' = "h_exit"
  /\ UNCHANGED <<variant, resolution, redis_name, device_name, audio_output,
               process, restart_requested, proc, signals, nlines, cmd,
               launched, exc, mpc, lpc, cmd_msg, stop_proc, mon, scan_proc,
               line, ncmds, nwrites, ref_client, stop_cleared, restart_seen,
               disabled>>

\* ------------------------------- monitor threads (server.py): _monitor_output
\* while self.running and self.process: line = self.process.stderr.readline()
\* begins on the Popen that self.process names at that moment.
MonitorLoop(i) ==
  /\ ProgramRuns
  /\ mon[i] = "loop"
  /\ IF running /\ process # 0
       THEN /\ mon' = [mon EXCEPT ![i] = "read"]
            /\ scan_proc' = [scan_proc EXCEPT ![i] = process]
       ELSE /\ mon' = [mon EXCEPT ![i] = "done"]
            /\ scan_proc' = scan_proc
  /\ pub' = FALSE
  /\ UNCHANGED <<variant, resolution, redis_name, device_name, audio_output,
               running, process, restart_requested, state, client_name, proc,
               signals, nlines, cmd, launched, exc, mpc, lpc, cmd_msg, hpc,
               stop_proc, line, ncmds, nwrites, ref_client, stop_cleared,
               restart_seen, idles_pending, disabled>>

\* readline returns a line.
MonitorReadLine(i) ==
  /\ ProgramRuns
  /\ mon[i] = "read"
  /\ Room
  /\ nlines[scan_proc[i]] < MaxLines
  /\ \E l \in Lines :
       /\ line' = [line EXCEPT ![i] = l]
       /\ ref_client' = (IF scan_proc[i] = process
                          THEN RefIdentity(variant, l, ref_client) ELSE ref_client)
  /\ nlines' = [nlines EXCEPT ![scan_proc[i]] = @ + 1]
  /\ mon' = [mon EXCEPT ![i] = "classify"]
  /\ pub' = FALSE
  /\ UNCHANGED <<variant, resolution, redis_name, device_name, audio_output,
               running, process, restart_requested, state, client_name, proc,
               signals, cmd, launched, exc, mpc, lpc, cmd_msg, hpc, stop_proc,
               scan_proc, ncmds, nwrites, stop_cleared, restart_seen,
               idles_pending, disabled>>

\* The three pattern tests on the line, and the _publish_state of the first
\* that matches.
MonitorClassify(i) ==
  /\ ProgramRuns
  /\ mon[i] = "classify"
  /\ Publish(ClassifyServer(line[i], client_name), "scan")
  /\ line' = [line EXCEPT ![i] = None]
  /\ scan_proc' = [scan_proc EXCEPT ![i] = 0]
  /\ mon' = [mon EXCEPT ![i] = "loop"]
  /\ UNCHANGED <<variant, resolution, redis_name, device_name, audio_output,
               running, process, restart_requested, proc, signals, nlines,
               cmd, launched, exc, mpc, lpc, cmd_msg, hpc, stop_proc, ncmds,
               nwrites, ref_client, stop_cleared, restart_seen, disabled>>

\* readline returns b'' at end of stream; if self.process.poll() is not
\* None: break, else continue.
MonitorReadEof(i) ==
  /\ ProgramRuns
  /\ mon[i] = "read"
  /\ proc[scan_proc[i]] # "alive"
  /\ proc' = Reap(process)
  /\ scan_proc' = [scan_proc EXCEPT ![i] = 0]
  /\ mon' = [mon EXCEPT ![i] = IF proc[process] # "alive" THEN "done" ELSE "loop"]
  /\ pub' = FALSE
  /\ UNCHANGED <<variant, resolution, redis_name, device_name, audio_output,
               running, process, restart_requested, state, client_name,
               signals, nlines, cmd, launched, exc, mpc, lpc, cmd_msg, hpc,
               stop_proc, line, ncmds, nwrites, ref_client, stop_cleared,
               restart_seen, idles_pending, disabled>>

\* ------------------------------------------------------------ environment
\* The child exits: on its own, or in response to a signal it was sent.
ProcExit(p) ==
  /\ proc[p] = "alive"
  /\ proc' = [proc EXCEPT ![p] = "zombie"]
  /\ pub' = FALSE
  /\ UNCHANGED <<variant, resolution, redis_name, device_name, audio_output,
               running, process, restart_requested, state, client_name,
               signals, nlines, cmd, launched, exc, mpc, lpc, cmd_msg, hpc,
               stop_proc, mon, scan_proc, line, ncmds, nwrites, ref_client,
               stop_cleared, restart_seen, idles_pending, disabled>>

\* Another component stores a new airplay_name (or deletes the key).
StoreWrite(n) ==
  /\ Room
  /\ nwrites < MaxWrites
  /\ n # redis_name
  /\ redis_name' = n
  /\ nwrites' = nwrites + 1
  /\ pub' = FALSE
  /\ UNCHANGED <<variant, resolution, device_name, audio_output, running,
               process, restart_requested, state, client_name, proc, signals,
               nlines, cmd, launched, exc, mpc, lpc, cmd_msg, hpc, stop_proc,
               mon, scan_proc, line, ncmds, ref_client, stop_cleared,
               restart_seen, idles_pending, disabled>>

\* -------------------------------------------------------- specifications
MainCommon ==
  \/ StartCheck \/ StartSetRunning \/ StartBuild \/ SpawnOk \/ SpawnFail
  \/ StartPublishIdle \/ StartExcept \/ StartFinally \/ StartFinallyPublish
  \/ MainCheckRestart \/ MainClearRestart \/ MainSleep

MainServer == StartThread \/ StartWait

MainNative == NativeLoop \/ NativeReadLine \/ NativeClassify \/ NativeReadEof

Handler ==
  \/ SignalArrives \/ HandlerStopCheck \/ HandlerClearRunning \/ HandlerTerminate
  \/ HandlerWaitExited \/ HandlerWaitTimeout \/ HandlerKill \/ HandlerPublish
  \/ HandlerExit

Main == MainCommon \/ MainServer \/ MainNative

Listener ==
  \/ ListenerReceive \/ ListenerDispatch \/ LoadSettings \/ SetRestartRequested
  \/ StopCheck \/ StopReturn \/ StopClearRunning \/ StopTerminate \/ StopWaitExited
  \/ StopWaitTimeout \/ StopKill \/ StopPublish

Monitor ==
  \E i \in Pids :
    MonitorLoop(i) \/ MonitorReadLine(i) \/ MonitorClassify(i) \/ MonitorReadEof(i)

Environment ==
  (\E p \in Pids : ProcExit(p)) \/ (\E n \in StoreNames : StoreWrite(n))

Next == Main \/ Handler \/ Listener \/ Monitor \/ Environment

\* Both wrappers.
Spec == Init /\ [][Next]_vars

\* server.py alone.
InitServer == Init /\ variant = "server"

NextServer == MainCommon \/ MainServer \/ Handler \/ Listener \/ Monitor \/ Environment

SpecServer == InitServer /\ [][NextServer]_vars

\* main's loop when every launch fails, over the settings __init__ can
\* find: AIRPLAY_RESOLUTION, AUDIO_OUTPUT / audio_output and a stored name or
\* none.
InitBuild ==
  /\ variant \in Variants
  /\ resolution \in (IF variant = "server" THEN Resolutions \cup {DEFAULT_RESOLUTION}
                                            ELSE {DEFAULT_RESOLUTION})
  /\ redis_name \in {"", "Lobby"}
  /\ device_name = (IF redis_name # "" THEN redis_name ELSE DEFAULT_NAME)
  /\ audio_output \in AudioOutputs
  /\ Constructed

NextBuild ==
  \/ StartCheck \/ StartSetRunning \/ StartBuild \/ SpawnFail \/ StartExcept
  \/ StartFinally \/ StartFinallyPublish \/ MainCheckRestart \/ MainSleep

SpecBuild == InitBuild /\ [][NextBuild]_vars

\* The main thread is a running thread: it takes its next step whenever it
\* has one (a blocked wait or readline has none).
FairSpec == Spec /\ WF_vars(Main)

\* ------------------------------------------------------------ properties
\* C1: in every reachable state at most one supervised child process is
\* alive.
C1_AtMostOneChild == Cardinality(Alive) <= 1

\* What start() and stop() may not touch when they do nothing.
Supervisor == <<running, process, proc, signals, state, client_name,
                restart_requested, device_name, audio_output, launched>>

\* C2: start() called while the run flag is set returns at once: it spawns
\* nothing, leaves the run flag, the handle, the session state, the client
\* and the restart flag as they were and publishes no event.
C2_StartWhileRunningIsNoop ==
  [][(mpc = "s_check" /\ running /\ mpc' # mpc)
       => (mpc' = "m_check" /\ ~pub' /\ UNCHANGED Supervisor)]_vars

\* start() has just returned from line 246: only that path leaves the run
\* flag set.
C2_Witness == mpc = "m_check" /\ running

RefEvent(v, l, ident) ==
  IF RefConnect(v, l) THEN <<Event(STATE_CONNECTED, connect_pattern(l))>>
  ELSE IF RefStart(v, l) THEN <<Event(STATE_STREAMING, ident)>>
  ELSE IF RefStop(v, l) THEN <<Event(STATE_IDLE, None)>>
  ELSE <<>>

\* C4: for every line of the current process that a scan loop classifies,
\* the loop publishes exactly the event the per-line classifier emits for it
\* (connect before stream start before stream stop; nothing for an unmatched
\* line), a stream-start event carrying the identity last recorded.
C4_ScanMatchesClassifier ==
  [][\A i \in Scanners :
       (line[i] # None /\ line'[i] = None /\ (i = 0 \/ scan_proc[i] = process))
         => LET exp == RefEvent(variant, line[i], ref_client)
            IN  IF exp = <<>> THEN ~pub'
                ELSE pub' /\ state' = exp[1].state /\ client_name' = exp[1].client
    ]_vars

\* C5: the supervision loop never enters the backoff delay while a restart
\* command, received when the child was alive, has not yet been followed by
\* a spawn attempt.
C5_RestartSkipsBackoff == ~(mpc = "m_sleep" /\ restart_seen = "alive")

\* C6: between a restart command received while the child was alive and the
\* spawn of the replacement, stop() and start()'s exit path publish exactly
\* one Idle event together.
C6_OneIdlePerRestart ==
  [][(process' # process /\ restart_seen = "alive") => idles_pending = 1]_vars

\* C7: every process is spawned with the device name the supervisor holds at
\* that moment, which is the one the last restart command read from the
\* store, and the arguments of a process never change while it is the
\* current one.
C7_LaunchedWithReloadedName ==
  [][/\ process' # process => launched'.name = device_name
     /\ process' = process => launched' = launched
    ]_vars

C9_BackoffUnlessRestart ==
  (mpc = "m_clear" /\ process # 0) => restart_seen # "none"

\* A scan loop that is reading the output of a live child.
Scanning(i) ==
  /\ scan_proc[i] # 0 /\ proc[scan_proc[i]] = "alive"
  /\ IF i = 0 THEN mpc \in {"n_read", "n_classify"} ELSE mon[i] \in {"read", "classify"}

\* C10: while start() unwinds from a failed spawn no child is alive and no
\* scan loop reads a live child, and every failed spawn is followed by
\* another spawn attempt, unless a termination signal ends the program.
C10_RetryAfterLaunchFailure ==
  /\ []((exc /\ hpc = "h_none") => (Alive = {} /\ \A i \in Scanners : ~Scanning(i)))
  /\ (mpc = "s_except" ~> (mpc = "s_spawn" \/ hpc # "h_none"))

\* C11: when a process is spawned after an earlier instance has terminated,
\* the last event published for that instance was (Idle, None): the published
\* state is Idle and no client is recorded.
C11_IdleUntilNextSpawn ==
  [][(process' # process /\ process # 0 /\ proc[process] # "alive")
       => (state = STATE_IDLE /\ client_name = None)]_vars

\* Positions of the main thread inside start(), from the spawn to its return.
RunningInstance == AfterSpawn \ {"m_check"}

\* C12: a scan loop publishes a Connected or Streaming event for a line only
\* while the instance the line came from is the current one and start() has
\* not returned for it.
C12_NoEventAfterTeardown ==
  [][\A i \in Scanners :
       (line[i] # None /\ line'[i] = None /\ pub'
          /\ state' \in {STATE_CONNECTED, STATE_STREAMING})
         => (mpc \in RunningInstance /\ (i # 0 => scan_proc[i] = process))
    ]_vars

\* The -as arguments that name the first and the second output device.
FirstDevice == {"alsasink device=hw:0,0", "alsasink device=hw:0"}
SecondDevice == {"alsasink device=hw:1,0", "alsasink device=hw:1"}

\* The audio_output value that selects the second device: 'headphones' in
\* server.py, 'hdmi2' in airplay_native.py.
SecondOutput(v) == IF v = "server" THEN "headphones" ELSE "hdmi2"

Active(i) == mon[i] \in {"read", "classify"}

\* C14: at most one scan task is reading or classifying at any time, and the
\* scan task started for an instance reads only that instance's stream.
C14_OneScanTaskPerInstance ==
  \A i \in Pids :
    Active(i) => (scan_proc[i] = i /\ \A j \in Pids \ {i} : ~Active(j))

\* C15: a process is sent the kill signal only after it was sent the
\* termination signal, and when a stop() that signalled completes, no
\* process that was signalled is still alive.
C15_GracefulThenForced ==
  /\ [](\A p \in Pids : "SIGKILL" \in signals[p] => "SIGTERM" \in signals[p])
  /\ [][(lpc = "st_pub" /\ lpc' = "l_listen")
          => \A p \in Pids : signals[p] # {} => proc[p] # "alive"]_vars

\* C16: when the process is already gone as stop() tries to signal it, at
\* the graceful or at the forced step, stop() goes on to publish Idle and to
\* return to the listener's loop.
C16_AlreadyGoneIsSuccess ==
  [][(lpc \in {"st_term", "st_kill"} /\ lpc' # lpc /\ proc[process] = "reaped")
       => lpc' = "st_pub"]_vars

\* Payloads the command table names.
Recognized == {"restart", "stop", "start"}

\* C17: a payload that is no command is ignored: handling it leaves the
\* flags, the settings, the process, its signals and the session state as
\* they were, publishes nothing, and the listener waits for the next message.
C17_UnknownCommandIgnored ==
  [][(lpc = "l_cmd" /\ cmd_msg \notin Recognized /\ lpc' # lpc)
       => (lpc' = "l_listen" /\ ~pub' /\ UNCHANGED Supervisor)]_vars

\* An unknown payload has been handled while the child runs, and the
\* listener is waiting again.
C17_Witness ==
  /\ lpc = "l_listen" /\ cmd_msg = "reload"
  /\ running /\ process # 0 /\ proc[process] = "alive"

\* C18: no scan loop publishes an event for a line of the current instance
\* before start() has published the Idle event that follows the spawn.
C18_IdleBeforeClassifierEvents ==
  [][\A i \in Pids :
       (line[i] # None /\ line'[i] = None /\ pub' /\ scan_proc[i] = process)
         => mpc \notin {"s_thread", "s_pub"}]_vars

\* Positions of the listener thread inside a stop() call.
StopInProgress == InStop \cup {"st_check", "st_return"}

\* C19: while a child is alive and no stop() call is in progress, in the
\* listener or in the signal handler, the run flag is set and the stored
\* handle is that child.
C19_LiveChildIsCurrent ==
  \A p \in Alive :
    (lpc \notin StopInProgress /\ hpc = "h_none") => (running /\ process = p)

\* C20: once signal_handler has begun it ends the program, and when the
\* program has ended no child is alive.
C20_SignalStopsChildAndExits ==
  /\ [](hpc = "h_exit" => Alive = {})
  /\ [][hpc # "h_none" => hpc' # "h_back"]_vars

\* Positions of the main thread between two start() calls, and at the
\* entry test of the next one.
BetweenStarts == {"s_check", "m_check", "m_clear", "m_sleep"}

\* C21: whenever the main thread is outside start() the run flag is clear,
\* and a start() call returns at its 'already running' test only while a
\* child is alive.
C21_RunFlagClearedOnExit ==
  /\ [](mpc \in BetweenStarts => ~running)
  /\ [][(mpc = "s_check" /\ mpc' = "m_check") => Alive # {}]_vars

====
